---- MODULE Spec2Model ----
(***************************************************************************)
(* State-machine model of local_stack_focus (src/src/business/mod.rs):     *)
(* the reconciler CurrentStack::actualize, the dispatcher                  *)
(* CurrentStack::loop_once and the scheduler event_loop.                   *)
(*                                                                         *)
(* Option<T> values are modelled by the value itself or the string None.   *)
(* A HashMap<String, T> whose values are records is a function whose       *)
(* DOMAIN is the key set; a HashMap<String, String> is a total function    *)
(* over the key universe whose value None means "key absent".              *)
(* HashMap iteration order is unspecified: every loop over a HashMap takes *)
(* its order as an explicit, nondeterministically chosen sequence.         *)
(***************************************************************************)
EXTENDS Integers, Sequences, FiniteSets, TLC

VARIABLES
    map,             \* CurrentStack.map: id -> Container
    target_ip,       \* CurrentStack.target_ip: Option<String>
    raw_containers,  \* loop_once: the snapshot polled in the running cycle
    events,          \* loop_once: the events of this tick not yet dispatched
    known,           \* loop_once: participants of the Target event still to patch
    requests,        \* update_hosts_for calls issued in the current tick, in order
    pc,              \* position of the control loop
    error,           \* the error event_loop returned, None while it runs
    elapsed,         \* event_loop: last_tick.elapsed()
    cycle_time,      \* time since the running cycle (loop_once call) started
    prev_time,       \* how long the previous cycle took, -1 before the second
    gap,             \* start of the running cycle minus start of the previous one
    sighted,         \* history: id -> kind of its event, for the ids first
                     \* sighted in the running cycle
    hosts,           \* /etc/hosts of the containers whose file is followed
    file,            \* update_host_file: the content given, then the one returned
    args,            \* update_host_file: lines and host of the latest call
    origin           \* history: the content given to the first call

vars == <<map, target_ip, raw_containers, events, known, requests, pc, error,
          elapsed, cycle_time, prev_time, gap, sighted, hosts, file, args, origin>>

\* The variables of the rewriter, which the control loop never touches.
rewriterVars == <<file, args, origin>>

None == "None"

(***************************************************************************)
(* Configuration (struct Config), as loaded once at startup.               *)
(***************************************************************************)
Config ==
    [network      |-> "net",
     label_key    |-> "focus",
     target       |-> "tgt",
     dependencies |-> <<"web", "api">>]

ServiceLabel == "com.docker.compose.service"

(***************************************************************************)
(* Bounds of the model.                                                    *)
(***************************************************************************)
Ids == {"a", "b", "c"}

\* Longest time (in clock units) one await of a cycle may take.
MaxDelay == 3

\* Largest value of last_tick.elapsed() the model follows.
MaxElapsed == 6

\* Resolution of the model's clock: clock units per second.
UnitsPerSecond == 2

\* event_loop: tick_rate = Duration::from_secs(1)
TickSecs == 1

TickRate == TickSecs * UnitsPerSecond

(***************************************************************************)
(* RawContainer values a poll may report for one id.                       *)
(***************************************************************************)
Raw(name, ip, otherIp, service, flag) ==
    [name     |-> name,
     networks |-> (Config.network :> ip @@ "other" :> otherIp),
     labels   |-> (ServiceLabel :> service @@ Config.label_key :> flag)]

RawContainers ==
    { Raw("n", "10.0.0.2", None, "app", "1"),      \* flagged dependent
      Raw(None, "10.0.0.3", None, "app", "1"),     \* flagged dependent without a name
      Raw("n", "10.0.0.5", None, "tgt", None),     \* target
      Raw("n", "10.0.0.6", None, "tgt", "1"),      \* target at another ip, flagged
      Raw("n", "10.0.0.4", None, None, None),      \* in the network, no label
      Raw("n", None, "10.1.0.2", "tgt", "1") }     \* flagged target service outside the network

Snapshots ==
    UNION { [S -> RawContainers] : S \in SUBSET Ids }

EmptyMap == [i \in {} |-> None]

\* No call of update_host_file yet.
NoArgs == [lines |-> <<>>, host |-> None]

(***************************************************************************)
(* Helpers.                                                                *)
(***************************************************************************)
Range(s) == { s[i] : i \in DOMAIN s }

Perms(S) ==
    { s \in [1..Cardinality(S) -> S] : \A i, j \in DOMAIN s : s[i] = s[j] => i = j }

\* HashMap::insert
Insert(m, k, v) == [i \in DOMAIN m \cup {k} |-> IF i = k THEN v ELSE m[i]]

BagOfSeq(s) == [e \in Range(s) |-> Cardinality({ i \in DOMAIN s : s[i] = e })]

(***************************************************************************)
(* CurrentStack::actualize, second loop body: the Container derived from a *)
(* first-sighted snapshot entry.                                           *)
(***************************************************************************)
Derive(id, new) ==
    [id      |-> id,
     name    |-> new.name,
     service |-> new.labels[ServiceLabel],
     ip      |-> new.networks[Config.network],
     flag    |-> new.labels[Config.label_key]]

Event(kind, container, participants, ip) ==
    [kind |-> kind, container |-> container, known |-> participants, ip |-> ip]

\* new_containers.values().filter(|item| item.flag.is_some() && item.ip.is_some())
ActiveParticipants(new_containers) ==
    { new_containers[i] : i \in { j \in DOMAIN new_containers :
          new_containers[j].flag # None /\ new_containers[j].ip # None } }

\* Mutant: the flag is tested before the target service.
Classify_FlagFirst(c, new_containers) ==
    IF c.ip # None /\ c.flag # None
    THEN Event("New", c, {}, None)
    ELSE IF c.ip # None /\ c.service = Config.target
    THEN Event("Target", c, ActiveParticipants(new_containers), c.ip)
    ELSE IF c.ip # None
    THEN Event("NoFlag", c, {}, None)
    ELSE Event("OutsideNetwork", c, {}, None)

\* The if / else-if chain that turns a derived container into its event.
Classify(c, new_containers) ==
    IF c.ip # None /\ c.service = Config.target
    THEN Event("Target", c, ActiveParticipants(new_containers), c.ip)
    ELSE IF c.ip # None /\ c.flag # None
    THEN Event("New", c, {}, None)
    ELSE IF c.ip # None
    THEN Event("NoFlag", c, {}, None)
    ELSE Event("OutsideNetwork", c, {}, None)

\* Mutant: the containers absent from the snapshot are kept as well.
Survivors_KeepGone(known_containers, raw) == known_containers

\* Mutant: the kept containers are derived again from the snapshot.
Survivors_Rederive(known_containers, raw) ==
    [i \in DOMAIN known_containers \cap DOMAIN raw |-> Derive(i, raw[i])]

\* First loop: tracked containers still in the snapshot are kept.
Survivors(known_containers, raw) ==
    [i \in DOMAIN known_containers \cap DOMAIN raw |-> known_containers[i]]

\* Mutant: only the first absent container is reported.
GoneEvents_FirstOnly(known_containers, order) ==
    IF order = <<>> THEN <<>>
    ELSE <<Event("Gone", known_containers[Head(order)], {}, None)>>

\* First loop: one Gone event per tracked container absent from the snapshot,
\* in the order the map is iterated.
RECURSIVE GoneEvents(_, _)
GoneEvents(known_containers, order) ==
    IF order = <<>> THEN <<>>
    ELSE <<Event("Gone", known_containers[Head(order)], {}, None)>>
         \o GoneEvents(known_containers, Tail(order))

\* Second loop over the remaining snapshot entries, in iteration order.
RECURSIVE SecondLoop(_, _, _, _)
SecondLoop(raw, order, new_containers, evs) ==
    IF order = <<>> THEN [map |-> new_containers, events |-> evs]
    ELSE LET id == Head(order)
             c  == Derive(id, raw[id])
         IN  SecondLoop(raw, Tail(order), Insert(new_containers, id, c),
                        Append(evs, Classify(c, new_containers)))

\* Mutant: the fan-out list of every Target event holds the containers that
\* were tracked before the poll only.
Actualize_PreExisting(known_containers, raw, goneOrder, newOrder) ==
    LET r == SecondLoop(raw, newOrder, Survivors(known_containers, raw),
                        GoneEvents(known_containers, goneOrder))
    IN  [map |-> r.map,
         events |-> [i \in DOMAIN r.events |->
             IF r.events[i].kind = "Target"
             THEN [r.events[i] EXCEPT
                     !.known = ActiveParticipants(Survivors(known_containers, raw))]
             ELSE r.events[i]]]

\* actualize(raw): the new tracked map and the events, for one iteration order
\* of the tracked map (goneOrder) and of the snapshot (newOrder).
Actualize(known_containers, raw, goneOrder, newOrder) ==
    SecondLoop(raw, newOrder, Survivors(known_containers, raw),
               GoneEvents(known_containers, goneOrder))

\* History: the kind of the event of every first-sighted id.
SightedKinds(evs) ==
    LET idx == { i \in DOMAIN evs : evs[i].kind # "Gone" }
    IN  [id \in { evs[i].container.id : i \in idx } |->
            evs[CHOOSE i \in idx : evs[i].container.id = id].kind]

GoneIds(known_containers, raw) == DOMAIN known_containers \ DOMAIN raw
FirstSighted(known_containers, raw) == DOMAIN raw \ DOMAIN known_containers

(***************************************************************************)
(* The hosts-block rewriter. A String is a sequence of atoms: a marker     *)
(* word, a name, an ip, a line of other text, a tab or a newline; a &str   *)
(* pattern matches where its atoms occur consecutively.                    *)
(***************************************************************************)
\* env!("CARGO_PKG_NAME")
Package == "local_stack_focus"

\* format!("### open {} {} {}\n", PACKAGE, network, target)
OpenGuard(network, target) == <<"### open", Package, network, target, "\n">>

\* format!("### close {} {} {}\n", PACKAGE, network, target)
CloseGuard(network, target) == <<"### close", Package, network, target, "\n">>

\* The byte offsets at which pat occurs in str.
Occurrences(str, pat) ==
    { i \in 1..(Len(str) - Len(pat) + 1) : SubSeq(str, i, i + Len(pat) - 1) = pat }

\* The first occurrence of pat in str at or after from, 0 when there is none.
Find(str, pat, from) ==
    LET at == { i \in Occurrences(str, pat) : i >= from }
    IN  IF at = {} THEN 0 ELSE CHOOSE i \in at : \A j \in at : i <= j

\* str.split(pat).next(): the text before the first occurrence, or all of it.
SplitFirst(str, pat) ==
    IF Find(str, pat, 1) = 0 THEN str ELSE SubSeq(str, 1, Find(str, pat, 1) - 1)

\* str.split(pat).nth(1) of a str in which pat occurs: the text between the
\* first occurrence and the next one, or the end of str.
SplitSecond(str, pat) ==
    LET start == Find(str, pat, 1) + Len(pat)
        next  == Find(str, pat, start)
    IN  IF next = 0 THEN SubSeq(str, start, Len(str))
        ELSE SubSeq(str, start, next - 1)

TrimHostFromGuards(str, open_guard, close_guard) ==
    SplitFirst(str, open_guard)
    \o (IF Find(str, close_guard, 1) = 0 THEN <<>> ELSE SplitSecond(str, close_guard))

\* lines.iter().map(|str| format!("{}\t{}\n", host, str)).collect().join("")
RECURSIVE HostLines(_, _)
HostLines(lines, host) ==
    IF lines = <<>> THEN <<>>
    ELSE <<host, "\t", Head(lines), "\n">> \o HostLines(Tail(lines), host)

\* Mutant: the new block is put in front of the kept text.
UpdateHostFile_BlockFirst(str, lines, network, target, host) ==
    OpenGuard(network, target) \o HostLines(lines, host) \o CloseGuard(network, target)
    \o TrimHostFromGuards(str, OpenGuard(network, target), CloseGuard(network, target))

UpdateHostFile(str, lines, network, target, host) ==
    TrimHostFromGuards(str, OpenGuard(network, target), CloseGuard(network, target))
    \o OpenGuard(network, target) \o HostLines(lines, host) \o CloseGuard(network, target)

(***************************************************************************)
(* Docker::update_hosts_for (src/src/main.rs): fails with NoName for a     *)
(* container without a name, and may fail on the transport otherwise.      *)
(***************************************************************************)
PatchOutcomes(container) ==
    IF container.name = None THEN {"NoName"} ELSE {"Ok", "NoHost"}

Request(container, network, target, host, result) ==
    [container |-> container.id, dependencies |-> Config.dependencies,
     network |-> network, target |-> target, host |-> host, result |-> result]

\* buffer.replace("\\t", "\t").replace("\\n", "\n")
Unescape(str) ==
    [i \in DOMAIN str |-> IF str[i] = "\\t" THEN "\t"
                          ELSE IF str[i] = "\\n" THEN "\n" ELSE str[i]]

\* sh -c 'echo "{}" > /etc/hosts': echo ends its output with a newline.
Echo(str) == str \o <<"\n">>

\* The /etc/hosts a successful update_hosts_for leaves in the container.
UpdateHostsFor(content, request) ==
    Echo(UpdateHostFile(Unescape(content), request.dependencies, request.network,
                        request.target, request.host))

\* The hosts files of the followed containers after a successful request.
Written(files, request) ==
    IF request.container \in DOMAIN files
    THEN [files EXCEPT ![request.container] = UpdateHostsFor(@, request)]
    ELSE files

\* Longest content update_host_file is applied to.
MaxFile == 40

Writable(files, id) == id \in DOMAIN files => Len(files[id]) <= MaxFile

(***************************************************************************)
(* CurrentStack::new and the start of event_loop.                          *)
(***************************************************************************)
Init ==
    /\ map = EmptyMap
    /\ target_ip = None
    /\ raw_containers = EmptyMap
    /\ events = <<>>
    /\ known = {}
    /\ requests = <<>>
    /\ pc = "poll"
    /\ error = None
    /\ elapsed = 0
    /\ cycle_time = 0
    /\ prev_time = -1
    /\ gap = 0
    /\ sighted = EmptyMap
    /\ hosts = EmptyMap
    /\ file = <<>>
    /\ args = NoArgs
    /\ origin = <<>>

\* An await of the running cycle takes d clock units.
Pass(d) ==
    /\ elapsed + d <= MaxElapsed
    /\ elapsed' = elapsed + d
    /\ cycle_time' = cycle_time + d

(***************************************************************************)
(* loop_once: docker.poll().await? followed by self.actualize(containers). *)
(***************************************************************************)
PollOk(snapshots, delays) ==
    /\ pc = "poll"
    /\ \E d \in delays : Pass(d)
    /\ \E raw \in snapshots :
       \E goneOrder \in Perms(GoneIds(map, raw)) :
       \E newOrder \in Perms(FirstSighted(map, raw)) :
          LET r == Actualize(map, raw, goneOrder, newOrder)
          IN  /\ raw_containers' = raw
              /\ map' = r.map
              /\ events' = r.events
              /\ sighted' = SightedKinds(r.events)
    /\ requests' = <<>>
    /\ pc' = "dispatch"
    /\ UNCHANGED <<hosts, rewriterVars, target_ip, known, error, prev_time, gap>>

\* Mutant: a failed poll is reported and polled again.
PollFail_Retry(delays) ==
    /\ pc = "poll"
    /\ \E d \in delays : Pass(d)
    /\ pc' = "poll"
    /\ error' = "PollFailure"
    /\ requests' = <<>>
    /\ UNCHANGED <<sighted, hosts, rewriterVars, map, target_ip, raw_containers,
                   events, known, prev_time, gap>>

\* poll fails: the ? of loop_once and the ? of event_loop return the error.
PollFail(delays) ==
    /\ pc = "poll"
    /\ \E d \in delays : Pass(d)
    /\ pc' = "exited"
    /\ error' = "PollFailure"
    /\ requests' = <<>>
    /\ UNCHANGED <<sighted, hosts, rewriterVars, map, target_ip, raw_containers, events, known, prev_time, gap>>

(***************************************************************************)
(* loop_once, StackEvents::Target arm: the fan-out over the participants,  *)
(* one update_hosts_for per step, then the assignment of target_ip.        *)
(***************************************************************************)
BeginTarget ==
    /\ pc = "dispatch"
    /\ events # <<>>
    /\ Head(events).kind = "Target"
    /\ known' = Head(events).known
    /\ pc' = "fanout"
    /\ UNCHANGED <<sighted, hosts, rewriterVars, map, target_ip, raw_containers, events, requests, error,
                   elapsed, cycle_time, prev_time, gap>>

\* Mutant: the fan-out patches with the stored target ip, not the event's.
FanoutRequest_StoredIp(item, result) ==
    Request(item, Config.network, Config.network, target_ip, result)

\* docker.update_hosts_for(item, dependencies, network, network, &ip)
FanoutRequest(item, result) ==
    Request(item, Config.network, Config.network, Head(events).ip, result)

PatchKnownOk(delays) ==
    /\ pc = "fanout"
    /\ \E d \in delays : Pass(d)
    /\ \E item \in known :
          /\ "Ok" \in PatchOutcomes(item)
          /\ Writable(hosts, item.id)
          /\ requests' = Append(requests, FanoutRequest(item, "Ok"))
          /\ hosts' = Written(hosts, FanoutRequest(item, "Ok"))
          /\ known' = known \ {item}
    /\ UNCHANGED <<sighted, rewriterVars, map, target_ip, raw_containers, events, pc, error, prev_time, gap>>

\* Mutant: the failure ends the tick only, the loop goes on to its sleep.
PatchKnownFail_TickOnly(delays) ==
    /\ pc = "fanout"
    /\ \E d \in delays : Pass(d)
    /\ \E item \in known :
       \E result \in PatchOutcomes(item) \ {"Ok"} :
          requests' = Append(requests, FanoutRequest(item, result))
    /\ pc' = "dispatch"
    /\ events' = <<>>
    /\ UNCHANGED <<sighted, hosts, rewriterVars, map, target_ip, raw_containers, known, error, prev_time, gap>>

\* Mutant: the target ip is recorded before the error is returned.
PatchKnownFail_RecordsIp(delays) ==
    /\ pc = "fanout"
    /\ \E d \in delays : Pass(d)
    /\ \E item \in known :
       \E result \in PatchOutcomes(item) \ {"Ok"} :
          requests' = Append(requests, FanoutRequest(item, result))
    /\ target_ip' = Head(events).ip
    /\ pc' = "exited"
    /\ error' = "PatchFailure"
    /\ UNCHANGED <<sighted, hosts, rewriterVars, map, raw_containers, events, known,
                   prev_time, gap>>

\* update_hosts_for fails: the ? of loop_once and the ? of event_loop return.
PatchKnownFail(delays) ==
    /\ pc = "fanout"
    /\ \E d \in delays : Pass(d)
    /\ \E item \in known :
       \E result \in PatchOutcomes(item) \ {"Ok"} :
          requests' = Append(requests, FanoutRequest(item, result))
    /\ pc' = "exited"
    /\ error' = "PatchFailure"
    /\ UNCHANGED <<sighted, hosts, rewriterVars, map, target_ip, raw_containers, events, known, prev_time, gap>>

\* self.target_ip = Some(ip), after the last participant.
RecordTarget ==
    /\ pc = "fanout"
    /\ known = {}
    /\ target_ip' = Head(events).ip
    /\ events' = Tail(events)
    /\ pc' = "dispatch"
    /\ UNCHANGED <<sighted, hosts, rewriterVars, map, raw_containers, known, requests, error,
                   elapsed, cycle_time, prev_time, gap>>

(***************************************************************************)
(* loop_once, StackEvents::New arm.                                        *)
(***************************************************************************)
\* Mutant: the New arm patches with the container's own ip.
NewRequest_OwnIp(container, result) ==
    Request(container, Config.network, Config.target, container.ip, result)

\* docker.update_hosts_for(container, dependencies, network, target, ip)
NewRequest(container, result) ==
    Request(container, Config.network, Config.target, target_ip, result)

NewPatchOk(delays) ==
    /\ pc = "dispatch"
    /\ events # <<>>
    /\ Head(events).kind = "New"
    /\ target_ip # None
    /\ "Ok" \in PatchOutcomes(Head(events).container)
    /\ \E d \in delays : Pass(d)
    /\ Writable(hosts, Head(events).container.id)
    /\ requests' = Append(requests, NewRequest(Head(events).container, "Ok"))
    /\ hosts' = Written(hosts, NewRequest(Head(events).container, "Ok"))
    /\ events' = Tail(events)
    /\ UNCHANGED <<sighted, rewriterVars, map, target_ip, raw_containers, known, pc, error, prev_time, gap>>

NewPatchFail(delays) ==
    /\ pc = "dispatch"
    /\ events # <<>>
    /\ Head(events).kind = "New"
    /\ target_ip # None
    /\ \E d \in delays : Pass(d)
    /\ \E result \in PatchOutcomes(Head(events).container) \ {"Ok"} :
          requests' = Append(requests, NewRequest(Head(events).container, result))
    /\ pc' = "exited"
    /\ error' = "PatchFailure"
    /\ UNCHANGED <<sighted, hosts, rewriterVars, map, target_ip, raw_containers, events, known, prev_time, gap>>

\* "could not update /etc/hosts ... because no target known yet"
NewUnpatched ==
    /\ pc = "dispatch"
    /\ events # <<>>
    /\ Head(events).kind = "New"
    /\ target_ip = None
    /\ events' = Tail(events)
    /\ UNCHANGED <<sighted, hosts, rewriterVars, map, target_ip, raw_containers, known, requests, pc, error,
                   elapsed, cycle_time, prev_time, gap>>

(***************************************************************************)
(* loop_once, Gone / NoFlag / OutsideNetwork arms: a log line only.        *)
(***************************************************************************)
\* Mutant: the Gone event of a target container forgets the target ip.
LogOnly_ForgetTarget ==
    /\ pc = "dispatch"
    /\ events # <<>>
    /\ Head(events).kind \in {"Gone", "NoFlag", "OutsideNetwork"}
    /\ events' = Tail(events)
    /\ target_ip' = IF /\ Head(events).kind = "Gone"
                        /\ Head(events).container.service = Config.target
                     THEN None ELSE target_ip
    /\ UNCHANGED <<sighted, hosts, rewriterVars, map, raw_containers, known, requests, pc, error,
                   elapsed, cycle_time, prev_time, gap>>

\* Mutant: with a target ip known, the logged container is patched as well.
LogOnly_Patch ==
    /\ pc = "dispatch"
    /\ events # <<>>
    /\ Head(events).kind \in {"Gone", "NoFlag", "OutsideNetwork"}
    /\ events' = Tail(events)
    /\ requests' = IF target_ip = None THEN requests
                   ELSE Append(requests, Request(Head(events).container, Config.network,
                                                 Config.target, target_ip, "Ok"))
    /\ UNCHANGED <<sighted, hosts, rewriterVars, map, target_ip, raw_containers, known, pc, error,
                   elapsed, cycle_time, prev_time, gap>>

LogOnly ==
    /\ pc = "dispatch"
    /\ events # <<>>
    /\ Head(events).kind \in {"Gone", "NoFlag", "OutsideNetwork"}
    /\ events' = Tail(events)
    /\ UNCHANGED <<sighted, hosts, rewriterVars, map, target_ip, raw_containers, known, requests, pc, error,
                   elapsed, cycle_time, prev_time, gap>>

(***************************************************************************)
(* event_loop: loop_once returned Ok(()); the sleep and the next cycle.    *)
(* last_tick is reassigned only inside the if.                             *)
(***************************************************************************)
SleepTime == IF TickRate > elapsed THEN TickRate - elapsed ELSE 0

Sleep ==
    /\ pc = "dispatch"
    /\ events = <<>>
    /\ elapsed' = IF TickRate > elapsed THEN 0 ELSE elapsed
    /\ gap' = cycle_time + SleepTime
    /\ prev_time' = cycle_time
    /\ cycle_time' = 0
    /\ raw_containers' = EmptyMap
    /\ sighted' = EmptyMap
    /\ pc' = "poll"
    /\ UNCHANGED <<hosts, rewriterVars, map, target_ip, events, known, requests, error>>

(***************************************************************************)
(* Specification of the reconciler and dispatcher: every await returns at  *)
(* once, so the scheduler sleeps one period per cycle.                     *)
(***************************************************************************)
NoDelay == {0}

Poll == PollOk(Snapshots, NoDelay)
PollError == PollFail(NoDelay)
PatchKnown == PatchKnownOk(NoDelay)
PatchKnownError == PatchKnownFail(NoDelay)
PatchNew == NewPatchOk(NoDelay)
PatchNewError == NewPatchFail(NoDelay)

Next ==
    \/ Poll
    \/ PollError
    \/ BeginTarget
    \/ PatchKnown
    \/ PatchKnownError
    \/ RecordTarget
    \/ PatchNew
    \/ PatchNewError
    \/ NewUnpatched
    \/ LogOnly
    \/ Sleep

Spec == Init /\ [][Next]_vars

(***************************************************************************)
(* Specification of the scheduler: every await (the poll, each             *)
(* update_hosts_for) takes 0..MaxDelay clock units; the snapshots are kept *)
(* small.                                                                  *)
(***************************************************************************)
Delays == 0..MaxDelay

SchedSnapshots ==
    UNION { [S -> { Raw("n", "10.0.0.2", None, "app", "1"),
                    Raw("n", "10.0.0.5", None, "tgt", None) }] :
            S \in SUBSET {"a", "b"} }

SchedPoll == PollOk(SchedSnapshots, Delays)
SchedPollError == PollFail(Delays)
SchedPatchKnown == PatchKnownOk(Delays)
SchedPatchKnownError == PatchKnownFail(Delays)
SchedPatchNew == NewPatchOk(Delays)
SchedPatchNewError == NewPatchFail(Delays)

NextSched ==
    \/ SchedPoll
    \/ SchedPollError
    \/ BeginTarget
    \/ SchedPatchKnown
    \/ SchedPatchKnownError
    \/ RecordTarget
    \/ SchedPatchNew
    \/ SchedPatchNewError
    \/ NewUnpatched
    \/ LogOnly
    \/ Sleep

SpecSched == Init /\ [][NextSched]_vars

(***************************************************************************)
(* Specification of the reconciler alone: one call of actualize on every   *)
(* tracked map and every snapshot over two ids whose entries take every    *)
(* combination of ip on the monitored network, ip on another network,      *)
(* compose service and flag. The tracked maps are those a first poll       *)
(* leaves behind.                                                          *)
(***************************************************************************)
WideContainers ==
    { Raw("n", ip, otherIp, service, flag) :
         ip \in {None, "10.0.0.5"}, otherIp \in {None, "10.1.0.2"},
         service \in {None, "app", "tgt"}, flag \in {None, "1"} }

WideSnapshots ==
    UNION { [S -> WideContainers] : S \in SUBSET {"a", "b"} }

InitReconcile ==
    /\ map \in { [i \in DOMAIN s |-> Derive(i, s[i])] : s \in WideSnapshots }
    /\ target_ip = None
    /\ raw_containers = EmptyMap
    /\ events = <<>>
    /\ known = {}
    /\ requests = <<>>
    /\ pc = "poll"
    /\ error = None
    /\ elapsed = 0
    /\ cycle_time = 0
    /\ prev_time = 0
    /\ gap = TickRate
    /\ sighted = EmptyMap
    /\ hosts = EmptyMap
    /\ file = <<>>
    /\ args = NoArgs
    /\ origin = <<>>

Reconcile == PollOk(WideSnapshots, NoDelay)

NextReconcile == Reconcile

SpecReconcile == InitReconcile /\ [][NextReconcile]_vars

(***************************************************************************)
(* Specification of the loop with the /etc/hosts of one container          *)
(* followed: container a is a named, flagged dependent, container b the    *)
(* target, at one of two ips.                                              *)
(***************************************************************************)
HostsSnapshots ==
    { raw \in UNION { [S -> RawContainers] : S \in SUBSET {"a", "b"} } :
        /\ "a" \in DOMAIN raw => raw["a"] = Raw("n", "10.0.0.2", None, "app", "1")
        /\ "b" \in DOMAIN raw => raw["b"] \in { Raw("n", "10.0.0.5", None, "tgt", None),
                                               Raw("n", "10.0.0.6", None, "tgt", "1") } }

InitHosts ==
    /\ hosts = [id \in {"a"} |-> <<"127.0.0.1 localhost", "\n">>]
    /\ map = EmptyMap
    /\ target_ip = None
    /\ raw_containers = EmptyMap
    /\ events = <<>>
    /\ known = {}
    /\ requests = <<>>
    /\ pc = "poll"
    /\ error = None
    /\ elapsed = 0
    /\ cycle_time = 0
    /\ prev_time = -1
    /\ gap = 0
    /\ sighted = EmptyMap
    /\ file = <<>>
    /\ args = NoArgs
    /\ origin = <<>>

HostsPoll == PollOk(HostsSnapshots, NoDelay)

NextHosts ==
    \/ HostsPoll
    \/ PollError
    \/ BeginTarget
    \/ PatchKnown
    \/ PatchKnownError
    \/ RecordTarget
    \/ PatchNew
    \/ PatchNewError
    \/ NewUnpatched
    \/ LogOnly
    \/ Sleep

SpecHosts == InitHosts /\ [][NextHosts]_vars

(***************************************************************************)
(* Specification of the rewriter alone: update_host_file applied, again    *)
(* and again, to a content made of at most MaxPieces pieces: marker lines, *)
(* lines of other text, and the two halves of a marker line.               *)
(***************************************************************************)
MaxPieces == 4

Pieces ==
    { OpenGuard(Config.network, Config.target),
      CloseGuard(Config.network, Config.target),
      <<"1.1.1.1 toto", "\n">>,
      <<"\n">>,
      <<"### open", Package, Config.network>>,
      <<"### close", Package, Config.network>>,
      <<Config.target, "\n">> }

RECURSIVE Concat(_)
Concat(ps) == IF ps = <<>> THEN <<>> ELSE Head(ps) \o Concat(Tail(ps))

Contents ==
    { Concat(ps) : ps \in UNION { [1..n -> Pieces] : n \in 0..MaxPieces } }

HostnameLists == { Config.dependencies, <<"web">> }

HostIps == { "10.0.0.5", "10.0.0.6" }

InitRewrite ==
    /\ file \in Contents
    /\ origin = file
    /\ args = NoArgs
    /\ map = EmptyMap
    /\ target_ip = None
    /\ raw_containers = EmptyMap
    /\ events = <<>>
    /\ known = {}
    /\ requests = <<>>
    /\ pc = "rewrite"
    /\ error = None
    /\ elapsed = 0
    /\ cycle_time = 0
    /\ prev_time = -1
    /\ gap = 0
    /\ sighted = EmptyMap
    /\ hosts = EmptyMap

Rewrite ==
    /\ pc = "rewrite"
    /\ Len(file) <= MaxFile
    /\ \E lines \in HostnameLists, host \in HostIps :
          /\ file' = UpdateHostFile(file, lines, Config.network, Config.target, host)
          /\ args' = [lines |-> lines, host |-> host]
    /\ UNCHANGED <<origin, map, target_ip, raw_containers, events, known, requests,
                   pc, error, elapsed, cycle_time, prev_time, gap, sighted, hosts>>

NextRewrite == Rewrite

SpecRewrite == InitRewrite /\ [][NextRewrite]_vars

(***************************************************************************)
(* Properties.                                                             *)
(***************************************************************************)
\* A step in which poll succeeded and actualize ran: map is the previous
\* tracked map, raw_containers' the snapshot, events' the emitted events.
ReconcileStep == pc = "poll" /\ pc' = "dispatch"

EventsAbout(evs, id) == { i \in DOMAIN evs : evs[i].container.id = id }

\* C1: the participant list of every Target event emitted by actualize is
\* exactly the set of containers tracked before the poll that are in the new
\* snapshot and have both flag and ip; no container first sighted in the same
\* snapshot is in it.
C1_FanOutIsPreExisting ==
    [][ReconcileStep =>
         \A i \in DOMAIN events' :
            events'[i].kind = "Target" =>
               events'[i].known =
                  { map[j] : j \in { k \in DOMAIN map \cap DOMAIN raw_containers' :
                                        map[k].flag # None /\ map[k].ip # None } }]_vars

\* C2: for a fixed previous map and snapshot, the multiset of events and the
\* resulting map are the same for every iteration order of the two HashMaps.
C2_Deterministic ==
    [][ReconcileStep =>
         \A goneOrder \in Perms(GoneIds(map, raw_containers')) :
         \A newOrder \in Perms(FirstSighted(map, raw_containers')) :
            LET r == Actualize(map, raw_containers', goneOrder, newOrder)
            IN  /\ r.map = map'
                /\ BagOfSeq(r.events) = BagOfSeq(events')]_vars

FailedRequests == { i \in DOMAIN requests : requests[i].result # "Ok" }

C4_GuardKeys ==
    \A i \in DOMAIN requests :
       /\ requests[i].network = Config.network
       /\ requests[i].target = Config.target

\* C5: a cycle that follows a cycle shorter than the tick period starts at
\* least one period after that cycle started; a cycle that follows an
\* overrunning cycle starts as soon as that cycle ends.
C5_Cadence ==
    prev_time >= 0 =>
       /\ prev_time < TickRate => gap >= TickRate
       /\ prev_time >= TickRate => gap = prev_time

\* C6: in and after every tick whose poll succeeded, whether or not dispatch
\* failed later, the key set of the tracked map is the key set of the snapshot
\* of that tick.
C6_TrackedKeysAreSnapshotKeys ==
    (pc \in {"dispatch", "fanout"} \/ error = "PatchFailure") =>
       DOMAIN map = DOMAIN raw_containers

\* A tick whose dispatch failed, tracking a container outside the network
\* next to the one the patch failed for.
C6_Witness ==
    /\ error = "PatchFailure"
    /\ \E i \in DOMAIN map : map[i].ip = None
    /\ DOMAIN map = DOMAIN raw_containers

\* C7: every identity of the previous map that is absent from the snapshot
\* yields exactly one Gone event, carrying its tracked record, and leaves the
\* map; no Gone event is about any other identity.
C7_GoneCompleteness ==
    [][ReconcileStep =>
         /\ \A id \in DOMAIN map \ DOMAIN raw_containers' :
               /\ Cardinality({ i \in EventsAbout(events', id) :
                                   events'[i].kind = "Gone" }) = 1
               /\ \A i \in EventsAbout(events', id) :
                     events'[i].kind = "Gone" /\ events'[i].container = map[id]
               /\ id \notin DOMAIN map'
         /\ \A i \in DOMAIN events' :
               events'[i].kind = "Gone" =>
                  /\ events'[i].container.id \in DOMAIN map
                  /\ events'[i].container.id \notin DOMAIN raw_containers']_vars

\* actualize has just emitted two Gone events while another tracked container
\* stayed.
C7_Witness ==
    /\ pc = "dispatch"
    /\ requests = <<>>
    /\ Cardinality({ i \in DOMAIN events : events[i].kind = "Gone" }) = 2
    /\ DOMAIN map # {}

\* C8: every identity of the snapshot that was not tracked yields exactly one
\* event: Target when it has an ip on the monitored network and its compose
\* service is the target service (flagged or not); else New when it has an ip
\* and the flag; else NoFlag when it has an ip; else OutsideNetwork.
C8_ClassificationTable ==
    [][ReconcileStep =>
         \A id \in DOMAIN raw_containers' \ DOMAIN map :
            LET ip      == raw_containers'[id].networks[Config.network]
                service == raw_containers'[id].labels[ServiceLabel]
                flag    == raw_containers'[id].labels[Config.label_key]
                kinds   == { events'[i].kind : i \in EventsAbout(events', id) }
            IN  /\ Cardinality(EventsAbout(events', id)) = 1
                /\ (ip # None /\ service = Config.target) => kinds = {"Target"}
                /\ (ip # None /\ service # Config.target /\ flag # None)
                      => kinds = {"New"}
                /\ (ip # None /\ service # Config.target /\ flag = None)
                      => kinds = {"NoFlag"}
                /\ ip = None => kinds = {"OutsideNetwork"}]_vars

\* A flagged container of the target service was classified Target, next to a
\* container of the target service without an ip on the monitored network,
\* classified OutsideNetwork.
C8_Witness ==
    /\ pc = "dispatch"
    /\ \E i \in DOMAIN events :
          /\ events[i].kind = "Target"
          /\ events[i].container.flag # None
    /\ \E i \in DOMAIN events :
          /\ events[i].kind = "OutsideNetwork"
          /\ events[i].container.service = Config.target
          /\ events[i].container.flag # None

\* C9: an identity in the previous map and in the new snapshot gets no event
\* and keeps its tracked record unchanged, whatever the snapshot entry now
\* says; a tracked record never changes while its identity stays tracked, and
\* an identity that is sighted (again) after being absent is tracked with the
\* values of that snapshot.
C9_ClassifyOnce ==
    [][/\ \A id \in DOMAIN map \cap DOMAIN map' : map'[id] = map[id]
       /\ ReconcileStep =>
            /\ \A id \in DOMAIN map \cap DOMAIN raw_containers' :
                  /\ id \in DOMAIN map'
                  /\ map'[id] = map[id]
                  /\ EventsAbout(events', id) = {}
            /\ \A id \in DOMAIN raw_containers' \ DOMAIN map :
                  /\ id \in DOMAIN map'
                  /\ map'[id].name = raw_containers'[id].name
                  /\ map'[id].ip = raw_containers'[id].networks[Config.network]
                  /\ map'[id].service = raw_containers'[id].labels[ServiceLabel]
                  /\ map'[id].flag = raw_containers'[id].labels[Config.label_key]]_vars

\* A tracked container whose snapshot entry now has another ip, another
\* service and another flag than its record, in a tick that emitted no event.
C9_Witness ==
    /\ pc = "dispatch"
    /\ events = <<>>
    /\ requests = <<>>
    /\ \E id \in DOMAIN map :
          /\ map[id].ip # raw_containers[id].networks[Config.network]
          /\ map[id].service # raw_containers[id].labels[ServiceLabel]
          /\ map[id].flag # raw_containers[id].labels[Config.label_key]

\* C10: target_ip is unset at start; it changes only in the step that ends
\* the dispatch of a Target event, to that event's ip; once set it is never
\* unset again.
C10_TargetIpLifecycle ==
    /\ target_ip = None
    /\ [][target_ip' # target_ip =>
            /\ pc = "fanout"
            /\ Head(events).kind = "Target"
            /\ target_ip' = Head(events).ip]_vars
    /\ [][target_ip # None => target_ip' # None]_vars

\* target_ip is still set after the Gone event of the last tracked target
\* container was dispatched.
C10_Witness ==
    /\ target_ip # None
    /\ pc = "poll"
    /\ error = None
    /\ \A i \in DOMAIN map : map[i].service # Config.target

LastRequest(reqs) == reqs[Len(reqs)]

\* The step issued one more update_hosts_for request.
RequestStep == Len(requests') = Len(requests) + 1 /\ pc # "poll"

\* During the fan-out of a Target event, the participants no longer in known
\* are exactly those of the latest requests, one request each, all successful
\* and all with the event's ip.
FanoutSoFar ==
    pc = "fanout" =>
       LET parts == Head(events).known
           n     == Cardinality(parts) - Cardinality(known)
           last  == { i \in DOMAIN requests : i > Len(requests) - n }
       IN  /\ known \subseteq parts
           /\ n <= Len(requests)
           /\ { requests[i].container : i \in last } = { k.id : k \in parts \ known }
           /\ \A i \in last :
                 /\ requests[i].host = Head(events).ip
                 /\ requests[i].dependencies = Config.dependencies
                 /\ requests[i].result = "Ok"

\* C11: the dispatch of Target(container, participants, ip) issues exactly one
\* request per participant, each with the configured dependencies and the
\* event's ip, all before target_ip is assigned; target_ip becomes ip after
\* the last one, and a New event dispatched afterwards is patched with the
\* stored target_ip.
C11_TargetDispatch ==
    [][/\ FanoutSoFar'
       /\ (pc = "dispatch" /\ pc' = "fanout") =>
             /\ Head(events).kind = "Target"
             /\ known' = Head(events).known
             /\ requests' = requests
             /\ target_ip' = target_ip
       /\ (pc = "fanout" /\ RequestStep) =>
             /\ requests' = Append(requests, LastRequest(requests'))
             /\ LastRequest(requests').container \in { k.id : k \in known }
             /\ LastRequest(requests').host = Head(events).ip
             /\ LastRequest(requests').dependencies = Config.dependencies
             /\ target_ip' = target_ip
             /\ LastRequest(requests').result = "Ok" =>
                   /\ pc' = "fanout"
                   /\ known' = { k \in known :
                                   k.id # LastRequest(requests').container }
       /\ (pc = "fanout" /\ ~RequestStep) =>
             /\ known = {}
             /\ pc' = "dispatch"
             /\ target_ip' = Head(events).ip
             /\ events' = Tail(events)
       /\ (pc = "dispatch" /\ RequestStep) =>
             LastRequest(requests').host = target_ip]_vars

\* Both participants of a Target event are patched with the event's ip while
\* target_ip still holds the ip of an earlier target.
C11_Witness ==
    /\ pc = "fanout"
    /\ known = {}
    /\ Cardinality(Head(events).known) = 2
    /\ target_ip # None
    /\ target_ip # Head(events).ip

\* C12: a New event issues exactly one request, for its container, with the
\* configured dependencies and the stored target_ip, when target_ip is set, and
\* none when it is unset; Gone, NoFlag and OutsideNetwork events issue no
\* request; none of them changes target_ip.
C12_OtherEvents ==
    [][(pc = "dispatch" /\ events # <<>> /\ Head(events).kind # "Target") =>
         /\ target_ip' = target_ip
         /\ (Head(events).kind = "New" /\ target_ip # None) =>
               /\ RequestStep
               /\ requests' = Append(requests, LastRequest(requests'))
               /\ LastRequest(requests').container = Head(events).container.id
               /\ LastRequest(requests').dependencies = Config.dependencies
               /\ LastRequest(requests').host = target_ip
               /\ LastRequest(requests').result = "Ok" => events' = Tail(events)
         /\ (Head(events).kind = "New" /\ target_ip = None) =>
               requests' = requests /\ events' = Tail(events)
         /\ Head(events).kind \in {"Gone", "NoFlag", "OutsideNetwork"} =>
               requests' = requests /\ events' = Tail(events)]_vars

\* The end of a tick that sighted a New, a NoFlag and an OutsideNetwork
\* container with target_ip set: one request, for the New one.
C12_Witness ==
    /\ pc = "dispatch"
    /\ events = <<>>
    /\ target_ip # None
    /\ { sighted[id] : id \in DOMAIN sighted } = {"New", "NoFlag", "OutsideNetwork"}
    /\ Len(requests) = 1
    /\ sighted[requests[1].container] = "New"
    /\ requests[1].result = "Ok"

\* C13: a failing request ends the tick with PatchFailure and leaves
\* target_ip as it was, also inside the fan-out of a Target event; no request
\* follows a failed one.
C13_AbortOnPatchFailure ==
    [][/\ (RequestStep /\ LastRequest(requests').result # "Ok") =>
             /\ pc' = "exited"
             /\ error' = "PatchFailure"
             /\ target_ip' = target_ip
       /\ FailedRequests # {} =>
             requests' = requests /\ target_ip' = target_ip]_vars

\* The first request of a fan-out over two participants failed; target_ip
\* still holds the earlier target's ip.
C13_Witness ==
    /\ pc = "exited"
    /\ error = "PatchFailure"
    /\ Head(events).kind = "Target"
    /\ Cardinality(known) = 2
    /\ target_ip # None
    /\ target_ip # Head(events).ip

\* C14: a failing poll emits no event, issues no request, leaves the tracked
\* map and target_ip unchanged and ends event_loop: no step follows it.
C14_PollFailureIsFatal ==
    [][/\ error # "PollFailure"
       /\ error' = "PollFailure" =>
             /\ pc' = "exited"
             /\ map' = map
             /\ target_ip' = target_ip
             /\ events' = <<>>
             /\ requests' = <<>>]_vars

\* A poll failed with containers tracked and target_ip set.
C14_Witness ==
    /\ error = "PollFailure"
    /\ pc = "exited"
    /\ DOMAIN map # {}
    /\ target_ip # None

Open == OpenGuard(Config.network, Config.target)
Close == CloseGuard(Config.network, Config.target)

MarkerFree(str) == Occurrences(str, Open) = {} /\ Occurrences(str, Close) = {}

\* The block update_host_file appends for the arguments a.
Block(a) ==
    Open \o Concat([i \in DOMAIN a.lines |-> <<a.host, "\t", a.lines[i], "\n">>])
    \o Close

\* The content in front of the block appended by the latest call.
Kept == SubSeq(file, 1, Len(file) - Len(Block(args)))

\* C15: applying update_host_file again with the same hostnames, network,
\* target and ip to its own result returns that result, for every content,
\* stray or repeated marker lines included.
C15_Idempotent ==
    [][(args # NoArgs /\ args' = args) => file' = file]_vars

\* A content holds one block when each marker occurs once, the opening one
\* first; the text before it is the prefix P, the text after it the suffix S.
WellFormed(str) ==
    /\ Cardinality(Occurrences(str, Open)) = 1
    /\ Cardinality(Occurrences(str, Close)) = 1
    /\ Find(str, Open, 1) + Len(Open) <= Find(str, Close, 1)

Prefix(str) == SubSeq(str, 1, Find(str, Open, 1) - 1)

Suffix(str) == SubSeq(str, Find(str, Close, 1) + Len(Close), Len(str))

\* The text outside the block of a content that holds one block or no marker.
Outside(str) == IF MarkerFree(str) THEN str ELSE Prefix(str) \o Suffix(str)

\* C16 (as claimed): from a content P ++ open ++ B ++ close ++ S, or one with
\* no marker, every application of update_host_file, the first one and each
\* later one with another ip, leaves P ++ S (or the content) followed by the
\* block of the latest call.
C16_Isolation ==
    (args # NoArgs /\ (WellFormed(origin) \/ MarkerFree(origin)))
        => file = Outside(origin) \o Block(args)

\* C16 (amended): the first application returns P ++ S ++ block (content ++
\* block when there is no marker); a later application does too provided
\* P ++ S holds neither marker.
C16_IsolationOfCleanText ==
    [][(WellFormed(origin) \/ MarkerFree(origin)) =>
          /\ args = NoArgs => file' = Outside(file) \o Block(args')
          /\ (args # NoArgs /\ MarkerFree(Outside(origin)))
                => file' = Outside(origin) \o Block(args')]_vars

\* update_host_file has been applied with ip 10.0.0.6 to a content holding one
\* block between two non-empty texts, and the result is P ++ S ++ block.
C16_Witness ==
    /\ WellFormed(origin)
    /\ Prefix(origin) # <<>>
    /\ Suffix(origin) # <<>>
    /\ MarkerFree(Outside(origin))
    /\ args.host = "10.0.0.6"
    /\ args.lines = Config.dependencies
    /\ file = Prefix(origin) \o Suffix(origin) \o Block(args)

\* Everything after the first occurrence of pat in str, nothing without one.
AfterFirst(str, pat) ==
    IF Find(str, pat, 1) = 0 THEN <<>>
    ELSE SubSeq(str, Find(str, pat, 1) + Len(pat), Len(str))

\* C18: the text update_host_file keeps in front of the new block is the
\* content before the first opening marker followed by all the content after
\* the first closing marker, up to the end of the file.
C18_TrimAsStated ==
    [][file' = SplitFirst(file, Open) \o AfterFirst(file, Close) \o Block(args')]_vars

\* The same, for contents in which the closing marker occurs at most once.
TrimAsStatedOnOneClose ==
    [][Cardinality(Occurrences(file, Close)) <= 1 =>
          file' = SplitFirst(file, Open) \o AfterFirst(file, Close) \o Block(args')]_vars

\* The managed blocks of a hosts file, by the offset of their opening marker.
ManagedBlocks(str) == { i \in DOMAIN str : str[i] = "### open" }

\* The ips of the lines '<ip>TAB<hostname>' of a hosts file.
IpLines(str) == { str[i] : i \in { j \in 1..(Len(str) - 1) : str[j + 1] = "\t" } }

\* C17: after every tick that completes without error, the hosts file of each
\* tracked dependent that has been patched holds exactly one managed block,
\* and every ip line of it carries the current target ip.
C17_Convergence ==
    (pc = "dispatch" /\ events = <<>>) =>
        \A id \in DOMAIN hosts \cap DOMAIN map :
            ManagedBlocks(hosts[id]) # {} =>
                /\ Cardinality(ManagedBlocks(hosts[id])) = 1
                /\ IpLines(hosts[id]) = {target_ip}

\* The tick has completed without error: every event has been dispatched.
TickDone == pc = "dispatch" /\ events = <<>>

\* A Target event was emitted in the current tick.
TargetSighted == \E id \in DOMAIN sighted : sighted[id] = "Target"

\* The tracked containers with a flag and an ip outside the target service.
Dependents ==
    { id \in DOMAIN map : /\ map[id].flag # None
                          /\ map[id].ip # None
                          /\ map[id].service # Config.target }

RequestsFor(id) == { i \in DOMAIN requests : requests[i].container = id }

\* C19: at the end of a tick that completed without error and emitted a
\* Target event, every tracked container with flag and ip outside the target
\* service has received a patch request in the tick, and the last one it
\* received carries the target ip held at the end of the tick.
C19_RefreshOnTarget ==
    (TickDone /\ TargetSighted) =>
        \A id \in Dependents :
            /\ RequestsFor(id) # {}
            /\ \A i \in RequestsFor(id) :
                   (\A j \in RequestsFor(id) : j <= i) => requests[i].host = target_ip

\* A tick with a Target event has completed in which one dependent tracked
\* before the tick and one first sighted in it were patched, the latter twice.
C19_Witness ==
    /\ TickDone
    /\ TargetSighted
    /\ \E id \in Dependents \ DOMAIN sighted : RequestsFor(id) # {}
    /\ \E id \in Dependents \cap DOMAIN sighted : Cardinality(RequestsFor(id)) = 2

\* C20: every patch request of a tick is issued in a tick that emitted a
\* Target event or is for a container whose New event the tick emitted, with
\* the target ip set; and a poll whose snapshot has the identity set of the
\* tracked map emits no event, so that its tick issues no request.
C20_NoRetryWithoutEvent ==
    /\ [](pc # "poll" =>
            \A i \in DOMAIN requests :
                \/ TargetSighted
                \/ /\ requests[i].container \in DOMAIN sighted
                   /\ sighted[requests[i].container] = "New"
                   /\ requests[i].host # None)
    /\ [][(ReconcileStep /\ DOMAIN raw_containers' = DOMAIN map)
            => (events' = <<>> /\ requests' = <<>>)]_vars

\* A tick has completed on a snapshot with the identity set of the tracked
\* map: a dependent sighted earlier while no target ip was known is tracked,
\* and no request was issued.
C20_Witness ==
    /\ TickDone
    /\ raw_containers # EmptyMap
    /\ sighted = EmptyMap
    /\ target_ip = None
    /\ Dependents # {}
    /\ requests = <<>>

====
